---- MODULE Spec2Model ----
(***************************************************************************)
(* State-machine model of the retrieval core of semantic-search-service:   *)
(* the query cache (core/redis_cache.py), the index helper                 *)
(* (core/index_helper.py), the public operations of                        *)
(* core/semantic_search.py, the documentation existence check              *)
(* (core/doc_intelligence.py) and the lazily created process-wide          *)
(* resources (core/config.py, core/resources/*.py).                        *)
(*                                                                         *)
(* External services are modelled by what they store: Qdrant is a map from *)
(* collection name to a set of points keyed by point id, Redis is a map    *)
(* from (namespace, key) to a byte string, the LLM/query engine is a       *)
(* nondeterministic choice of an answer text.                              *)
(***************************************************************************)
EXTENDS Integers, Sequences, FiniteSets, TLC

VARIABLES
    collections,     \* Qdrant: names of the collections that exist
    points,          \* Qdrant: collection name -> set of points
    _graph_stores,   \* index_helper._graph_stores: names holding a graph store
    redis,           \* Redis backend: <<namespace, key>> -> stored text (Nil if absent)
    redis_up,        \* whether the Redis backend answers
    redis_enabled,   \* AppConfig.redis_enabled (configuration option)
    enabled,         \* redis_cache.query_cache.enabled
    fs,              \* the indexed directory: file -> content version (0 = no file)
    nextId,          \* source of fresh uuid4 values (document and node ids)
    createdMode,     \* history: mode each existing collection was created with
    last,            \* history: the last call and what it returned
    slot,            \* module-level singleton slots: resource -> instance, 0 for None
    nextInst,        \* resource -> number of instances constructed so far
    closed,          \* <<resource, instance>> pairs on which close() has been called
    pc,              \* per thread: position inside a lazy accessor
    want,            \* per thread: the resource the accessor is for
    tmp,             \* per thread: the instance constructed, not yet stored
    got,             \* per thread, per resource: the instance last returned to it
    refresh_config,  \* CONFIG['documentation']['refresh']: enabled, schedule
    workers,         \* the refresh worker threads started, in order of start
    shutdown,        \* whether the application's shutdown event has run
    age,             \* Redis backend: <<namespace, key>> -> seconds since written
    _redis_store,    \* redis_cache._redis_store: TRUE when it holds a store
    attempts,        \* number of connection attempts made to the Redis backend
    local,           \* per thread: the local names of the search call it is in
    doubles,         \* history: cache entries two concurrent misses both wrote
    workflow_state,  \* DocumentProcessingWorkflow.workflow_state: id -> state
    workflow_file,   \* storage/workflows/<id>/workflow_state.json: id -> content
    jsonl            \* the conversation file: its lines, each a text

storeVars == <<collections, points, _graph_stores, fs, nextId, createdMode>>
cacheVars == <<redis, redis_up, redis_enabled, enabled>>
resVars   == <<slot, nextInst, closed>>
thrVars   == <<pc, want, tmp, got>>
schedVars == <<refresh_config, workers, shutdown>>
connVars  == <<_redis_store, attempts>>
callVars  == <<local, doubles, workflow_state, workflow_file, jsonl>>
vars      == <<storeVars, cacheVars, last, resVars, thrVars, schedVars, connVars, callVars, age>>

----------------------------------------------------------------------------
(* Bounds of the model *)

MaxId == 3            \* fresh uuid4 values available to index/refresh runs
MaxVersion == 2       \* content versions a file goes through
MaxInst == 3          \* resource instances constructed in the sequential runs
MaxSearchId == 2      \* fresh uuid4 values available while searching is explored

Names   == {"demo", "docs_react"}
Files   == <<"a.py", "b.md">>
Queries == {"foo"}
Limits  == {1, 5}
Threads == {"t1", "t2"}

----------------------------------------------------------------------------
(* Python values.  A text is a sequence of characters or literal fragments. *)

None      == [t |-> "none",  s |-> <<>>]
Raised    == [t |-> "raise", s |-> <<>>]
PyStr(s)  == [t |-> "str",   s |-> s]
PyInt(s)  == [t |-> "int",   s |-> s]
PyTrue    == [t |-> "bool",  s |-> <<"True">>]
PyFalse   == [t |-> "bool",  s |-> <<"False">>]

Q  == "\""
BS == "\\"
Digits == {"0", "1", "2", "3", "4", "5", "6", "7", "8", "9"}

\* bool(v) as Python's `if v:` evaluates it
Truthy(v) ==
    CASE v.t = "none" -> FALSE
      [] v.t = "str"  -> v.s # <<>>
      [] v.t = "int"  -> v.s # <<"0">>
      [] v.t = "bool" -> v = PyTrue
      [] OTHER        -> TRUE

RECURSIVE Escape(_)
Escape(s) ==
    IF s = <<>> THEN <<>>
    ELSE (IF Head(s) \in {Q, BS} THEN <<BS, Head(s)>> ELSE <<Head(s)>>)
         \o Escape(Tail(s))

RECURSIVE WellEscaped(_)
WellEscaped(s) ==
    IF s = <<>> THEN TRUE
    ELSE IF Head(s) = BS
         THEN Len(s) >= 2 /\ s[2] \in {Q, BS} /\ WellEscaped(SubSeq(s, 3, Len(s)))
         ELSE Head(s) # Q /\ WellEscaped(Tail(s))

RECURSIVE Unescape(_)
Unescape(s) ==
    IF s = <<>> THEN <<>>
    ELSE IF Head(s) = BS
         THEN <<s[2]>> \o Unescape(SubSeq(s, 3, Len(s)))
         ELSE <<Head(s)>> \o Unescape(Tail(s))

IsNumber(s) ==
    /\ s # <<>>
    /\ \A i \in 1..Len(s) : s[i] \in Digits
    /\ (Len(s) > 1 => s[1] # "0")

\* json.dumps(v)
json_dumps(v) ==
    CASE v.t = "str"  -> <<Q>> \o Escape(v.s) \o <<Q>>
      [] v.t = "int"  -> v.s
      [] v.t = "bool" -> IF v = PyTrue THEN <<"true">> ELSE <<"false">>
      [] OTHER        -> <<"null">>

\* json.loads(text): the decoded value, or Raised for json.JSONDecodeError
json_loads(text) ==
    IF text = <<"null">> THEN None
    ELSE IF text = <<"true">> THEN PyTrue
    ELSE IF text = <<"false">> THEN PyFalse
    ELSE IF IsNumber(text) THEN PyInt(text)
    ELSE IF /\ Len(text) >= 2
            /\ Head(text) = Q
            /\ text[Len(text)] = Q
            /\ WellEscaped(SubSeq(text, 2, Len(text) - 1))
         THEN PyStr(Unescape(SubSeq(text, 2, Len(text) - 1)))
    ELSE Raised

----------------------------------------------------------------------------
(* The query cache: core/redis_cache.py *)

Nil == <<>>     \* HGET of a field that is not there

\* hashlib.md5(query.encode()).hexdigest(), taken as collision-free
_make_key(query) == <<"md5", query>>

\* f"{query}:{limit}"
cache_key(query, limit) == query \o ":" \o ToString(limit)

\* queries put to DocIntelligence.search_pattern
PatternQueries == {"foo", "foo:5"}

CacheKeys  == {_make_key(cache_key(q, k)) : q \in Queries, k \in Limits}
              \cup {_make_key(q) : q \in PatternQueries}

\* GET /check/violation: the actions asked about, and f"violation:{action}:{context}"
ViolationActions == {"add_class", "copy_code"}
violation_key(action, context) == "violation:" \o action \o ":" \o context
ViolationKeys == {_make_key(violation_key(a, c)) : a \in ViolationActions, c \in Names}

CacheSlots == (Names \X CacheKeys) \cup ({"violations"} \X ViolationKeys)

\* RedisKVStore.get(key, collection): HGET then json.loads
RedisKVStore_get(key, collection) ==
    IF ~redis_up THEN Raised
    ELSE IF redis[<<collection, key>>] = Nil THEN None
    ELSE json_loads(redis[<<collection, key>>])

\* RedisKVStore.put(key, val, collection): HSET of json.dumps(val)
RedisKVStore_put(key, val, collection) ==
    [redis EXCEPT ![<<collection, key>>] = json_dumps(val)]

\* QueryCache.get
QueryCache_get(query, collection) ==
    IF ~enabled THEN None
    ELSE LET result == RedisKVStore_get(_make_key(query), collection) IN
         IF result = Raised THEN None
         ELSE IF Truthy(result)
              THEN IF result.t = "str"
                   THEN (LET d == json_loads(result.s) IN
                         IF d = Raised THEN None ELSE d)
                   ELSE result
              ELSE None

\* QueryCache.set: the value handed to RedisKVStore.put
QueryCache_encode(result) ==
    IF result.t # "str" THEN PyStr(json_dumps(result)) ELSE result

\* QueryCache.set: what it returns
QueryCache_set_ret(query, collection, result) ==
    IF ~enabled THEN FALSE
    ELSE IF ~redis_up THEN FALSE
    ELSE TRUE

\* QueryCache.set: the backend afterwards
QueryCache_set_redis(query, collection, result) ==
    IF QueryCache_set_ret(query, collection, result)
    THEN RedisKVStore_put(_make_key(query), QueryCache_encode(result), collection)
    ELSE redis

\* QueryCache.delete: what it returns (RedisKVStore.delete: whether a field went)
QueryCache_delete_ret(query, collection) ==
    IF ~enabled THEN FALSE
    ELSE IF ~redis_up THEN FALSE
    ELSE redis[<<collection, _make_key(query)>>] # Nil

\* QueryCache.delete: the backend afterwards
QueryCache_delete_redis(query, collection) ==
    IF enabled /\ redis_up
    THEN [redis EXCEPT ![<<collection, _make_key(query)>>] = Nil]
    ELSE redis

REDIS_TTL == 3600     \* CONFIG.get('cache_ttl', 3600), in seconds

\* the entry a QueryCache call on (query, collection) addresses
cache_entry(query, collection) == <<collection, _make_key(query)>>

\* QueryCache.set: the ages afterwards (put carries no expiry: a written
\* entry is new, and nothing ever removes it but delete)
QueryCache_set_age(query, collection, result) ==
    IF QueryCache_set_ret(query, collection, result)
    THEN [age EXCEPT ![cache_entry(query, collection)] = 0]
    ELSE age

\* QueryCache.delete: the ages afterwards
QueryCache_delete_age(query, collection) ==
    IF enabled /\ redis_up
    THEN [age EXCEPT ![cache_entry(query, collection)] = 0]
    ELSE age

----------------------------------------------------------------------------
(* History: the last call made and what it returned *)

Call(op, name, arg, ret, nums) ==
    [op |-> op, name |-> name, arg |-> arg, ret |-> ret, nums |-> nums]

Dict(keys) == [t |-> "dict",  s |-> keys]
Index(kind) == [t |-> "index", s |-> <<kind>>]

----------------------------------------------------------------------------
(* Readers and splitters: core/config.py get_configured_reader,            *)
(* core/semantic_search.py get_code_splitter                               *)

FilesPresent == {i \in 1..Len(Files) : fs[Files[i]] > 0}

\* the i-th smallest element of a set of numbers
RECURSIVE Nth(_, _)
Nth(S, i) ==
    LET m == CHOOSE x \in S : \A y \in S : x <= y
    IN IF i = 1 THEN m ELSE Nth(S \ {m}, i - 1)

\* SimpleDirectoryReader(path, ..., filename_as_id).load_data(): one document
\* per file, in path order.  The id is the file's path when filename_as_id is
\* set and a fresh uuid4 otherwise; hash is the content hash.
load_data(filename_as_id) ==
    [k \in 1..Cardinality(FilesPresent) |->
        LET f == Files[Nth(FilesPresent, k)] IN
        [id   |-> IF filename_as_id THEN [path |-> f, uuid |-> 0]
                  ELSE [path |-> "", uuid |-> nextId + k - 1],
         file |-> f,
         hash |-> fs[f]]]

\* CodeSplitter / Settings.node_parser .get_nodes_from_documents([doc]): the
\* files are short enough for one chunk; the node's id is a fresh uuid4
get_nodes_from_documents(doc, uuid) ==
    {[id |-> uuid, ref |-> doc.id, hash |-> doc.hash]}

\* the nodes of a whole load, the k-th document drawing uuid nextId + k - 1
all_nodes(docs) ==
    UNION {get_nodes_from_documents(docs[k], nextId + k - 1) : k \in 1..Len(docs)}

\* QdrantVectorStore.add(nodes): upsert by point id
upsert(pts, nodes) ==
    {p \in pts : \A n \in nodes : n.id # p.id} \cup nodes

----------------------------------------------------------------------------
(* core/index_helper.py *)

CONFIG_index_mode == "auto"      \* CONFIG.get('index_mode', 'auto')

ModeArgs == {"None", "auto", "graph", "enterprise", "basic"}

\* get_index: the mode its branches run on
effective_mode(mode) == IF mode = "None" THEN CONFIG_index_mode ELSE mode

\* get_index with the 'enterprise' branch lost: only 'graph' opens a graph index
get_index_kind_graph_only(collection_name, mode) ==
    LET m == effective_mode(mode) IN
    IF m = "auto"
    THEN IF collection_name \in collections /\ collection_name \notin _graph_stores
         THEN "basic"
         ELSE "graph"
    ELSE IF m = "graph" THEN "graph"
    ELSE "basic"

\* get_index: the kind of index it returns
get_index_kind(collection_name, mode) ==
    LET m == effective_mode(mode) IN
    IF m = "auto"
    THEN IF collection_name \in collections /\ collection_name \notin _graph_stores
         THEN "basic"
         ELSE "graph"
    ELSE IF m = "graph" \/ m = "enterprise" THEN "graph"
    ELSE "basic"

\* get_graph_index: get-or-create of the graph store
get_index_stores(collection_name, mode) ==
    IF get_index_kind(collection_name, mode) = "graph"
    THEN _graph_stores \cup {collection_name}
    ELSE _graph_stores

\* index_exists
index_exists(collection_name) == collection_name \in collections

\* the docstore of the index object get_index builds: StorageContext.from_defaults
\* gives every new index an empty in-memory document store
new_docstore == {}

----------------------------------------------------------------------------
(* The query engine and the retriever (LlamaIndex over Qdrant and the LLM) *)

Answers == {<<"foo is defined in a.py">>, <<"4", "2">>}
EmptyResponse == <<"Empty Response">>

\* str(index.as_query_engine(...).query(q)): any answer the LLM may give, or an
\* exception of a backend; on a collection that is not there the vector store
\* raises or nothing is retrieved
QueryOutcomes(collection_name) ==
    IF collection_name \in collections
    THEN {PyStr(a) : a \in Answers} \cup {Raised}
    ELSE {Raised, PyStr(EmptyResponse)}

Scores == {30, 70, 95}           \* similarity scores, in hundredths

\* retriever.retrieve(component): the score of the best node, 0 nodes when the
\* collection holds no point
RetrieveOutcomes(collection_name) ==
    IF points[collection_name] = {} THEN {-1} ELSE Scores

----------------------------------------------------------------------------
(* Initial state: the process has imported its modules (the global         *)
(* query_cache was constructed against the backend as it was then), Qdrant *)
(* and Redis hold nothing, the project directory holds one file.           *)

\* ComponentRegistry cache keys, f"{domain}.{component}": one component that
\* can be imported and one that cannot
Components == {"search.basic", "search.missing"}
Importable == {"search.basic"}

\* the slot of ComponentRegistry._cache under a key
registry_slot(key) == "ComponentRegistry._cache." \o key

\* the slot of index_helper._graph_stores under a collection name: the store
\* object held there (the variable _graph_stores holds the keys of the map)
graph_store_slot(name) == "_graph_stores." \o name

Resources == {"_qdrant_client", "QdrantResourceManager._qdrant_client",
              "_cache_manager", "_index_manager", "_intelligence"}
             \cup {registry_slot(k) : k \in Components}
             \cup {graph_store_slot(n) : n \in Names}

\* a thread that is in no search call
NoCall == [key |-> "", project |-> "", result |-> None, ret |-> None,
           overlap |-> FALSE]

\* no workflow of that id: the key is not in workflow_state, the file is
\* not on disk
NoWorkflow == [steps |-> <<>>, status |-> "none"]

Init ==
    /\ collections = {}
    /\ points = [n \in Names |-> {}]
    /\ _graph_stores = {}
    /\ redis = [c \in CacheSlots |-> Nil]
    /\ redis_up \in BOOLEAN
    /\ redis_enabled \in BOOLEAN
    /\ enabled = redis_up
    /\ fs = [f \in {Files[i] : i \in 1..Len(Files)} |-> IF f = Files[1] THEN 1 ELSE 0]
    /\ nextId = 1
    /\ createdMode = [n \in Names |-> "none"]
    /\ last = Call("init", "", "", None, <<>>)
    /\ slot = [r \in Resources |-> 0]
    /\ nextInst = [r \in Resources |-> 0]
    /\ closed = {}
    /\ pc = [t \in Threads |-> "idle"]
    /\ want = [t \in Threads |-> "none"]
    /\ tmp = [t \in Threads |-> 0]
    /\ got = [t \in Threads |-> [r \in Resources |-> 0]]
    /\ refresh_config = [enabled |-> FALSE, schedule |-> "weekly"]
    /\ workers = <<>>
    /\ shutdown = FALSE
    /\ age = [c \in CacheSlots |-> 0]
    /\ _redis_store = redis_up
    /\ attempts = 1
    /\ local = [t \in Threads |-> NoCall]
    /\ doubles = {}
    /\ workflow_state = [n \in Names |-> NoWorkflow]
    /\ workflow_file = [n \in Names |-> NoWorkflow]
    /\ jsonl = <<>>

----------------------------------------------------------------------------
(* core/semantic_search.py *)

\* search(query, project, limit)
search(query, project, limit) ==
    LET key    == cache_key(query, limit)
        cached == QueryCache_get(key, project)
    IN /\ IF cached # None
          THEN /\ last' = Call("search", project, key, cached, <<1>>)
               /\ UNCHANGED <<storeVars, cacheVars, age>>
          ELSE \E result \in QueryOutcomes(project) :
               /\ _graph_stores' = get_index_stores(project, "None")
               /\ redis' = IF result = Raised THEN redis
                           ELSE QueryCache_set_redis(key, project, result)
               /\ age' = IF result = Raised THEN age
                         ELSE QueryCache_set_age(key, project, result)
               /\ last' = Call("search", project, key, result, <<0>>)
               /\ UNCHANGED <<collections, points, fs, nextId, createdMode,
                              redis_up, redis_enabled, enabled>>
       /\ UNCHANGED <<resVars, thrVars, schedVars, connVars, callVars>>

\* index_project: the mode its branch runs on (mode None reads the config)
index_mode_of(mode) == IF mode = "None" THEN CONFIG_index_mode ELSE mode

\* index_project(path, name, mode)
index_project(name, mode) ==
    /\ IF FilesPresent = {}
       THEN \* SimpleDirectoryReader finds no file: ValueError from the constructor
            /\ last' = Call("index_project", name, mode, Raised, <<>>)
            /\ UNCHANGED storeVars
       ELSE LET docs  == load_data(FALSE)
                nodes == all_nodes(docs)
                kind  == IF index_mode_of(mode) = "basic" THEN "basic" ELSE "graph"
            IN IF Len(docs) = 0
               THEN /\ last' = Call("index_project", name, mode, Dict(<<"error", "path">>), <<>>)
                    /\ UNCHANGED storeVars
               ELSE /\ nextId + Len(docs) - 1 <= MaxId
                    /\ nextId' = nextId + Len(docs)
                    /\ collections' = collections \cup {name}
                    /\ points' = [points EXCEPT ![name] = upsert(@, nodes)]
                    /\ _graph_stores' = IF kind = "basic" THEN _graph_stores
                                        ELSE _graph_stores \cup {name}
                    /\ createdMode' = IF name \in collections THEN createdMode
                                      ELSE [createdMode EXCEPT ![name] = kind]
                    /\ last' = Call("index_project", name, mode,
                                    Dict(<<"indexed", "mode", "collection">>),
                                    <<Len(docs)>>)
                    /\ UNCHANGED fs
    /\ UNCHANGED <<cacheVars, resVars, thrVars, schedVars, connVars, callVars, age>>

\* clear_project(name): client.delete_collection(name)
clear_project(name) ==
    /\ collections' = collections \ {name}
    /\ points' = [points EXCEPT ![name] = {}]
    /\ createdMode' = [createdMode EXCEPT ![name] = "none"]
    /\ last' = Call("clear_project", name, "",
                    IF name \in collections THEN PyTrue ELSE PyFalse, <<>>)
    /\ UNCHANGED <<_graph_stores, fs, nextId, cacheVars, resVars, thrVars,
                   schedVars, connVars, callVars, age>>

\* check_exists(component, project)
check_exists(project) ==
    /\ IF ~index_exists(project)
       THEN /\ last' = Call("check_exists", project, "", Dict(<<"exists", "error">>), <<0>>)
            /\ UNCHANGED _graph_stores
       ELSE \E score \in RetrieveOutcomes(project) :
            /\ _graph_stores' = get_index_stores(project, "None")
            /\ last' = IF score # -1
                       THEN Call("check_exists", project, "",
                                 Dict(<<"exists", "confidence", "file", "snippet">>),
                                 <<1, score>>)
                       ELSE Call("check_exists", project, "",
                                 Dict(<<"exists", "message">>), <<0>>)
    /\ UNCHANGED <<collections, points, fs, nextId, createdMode, cacheVars,
                   resVars, thrVars, schedVars, connVars, callVars, age>>

\* BaseIndex.refresh_ref_docs(documents) on an index whose document store is
\* `docstore`: insert what the store does not know, update what changed,
\* leave the rest.  The k-th document's new node draws uuid nextId + k - 1.
RECURSIVE refresh_ref_docs(_, _, _, _, _)
refresh_ref_docs(docs, k, docstore, pts, flags) ==
    IF k > Len(docs) THEN [flags |-> flags, pts |-> pts]
    ELSE LET d     == docs[k]
             known == {e \in docstore : e.id = d.id}
             nodes == get_nodes_from_documents(d, nextId + k - 1)
             entry == [id |-> d.id, hash |-> d.hash]
         IN IF known = {}
            THEN refresh_ref_docs(docs, k + 1, docstore \cup {entry},
                                  upsert(pts, nodes), Append(flags, TRUE))
            ELSE IF \E e \in known : e.hash # d.hash
            THEN refresh_ref_docs(docs, k + 1, (docstore \ known) \cup {entry},
                                  upsert({p \in pts : p.ref # d.id}, nodes),
                                  Append(flags, TRUE))
            ELSE refresh_ref_docs(docs, k + 1, docstore, pts, Append(flags, FALSE))

\* sum(refreshed)
RECURSIVE sum(_)
sum(flags) ==
    IF flags = <<>> THEN 0 ELSE (IF Head(flags) THEN 1 ELSE 0) + sum(Tail(flags))

\* refresh_project reporting every document as unchanged
refresh_result_all_unchanged(flags, docs) ==
    <<sum(flags), Len(docs), Len(docs)>>

\* refresh_project: the counts it returns, <<refreshed, total, unchanged>>
refresh_result(flags, docs) ==
    <<sum(flags), Len(docs), Len(docs) - sum(flags)>>

\* refresh_project(name, path)
refresh_project(name) ==
    /\ IF ~index_exists(name)
       THEN /\ last' = Call("refresh_project", name, "", Dict(<<"error">>), <<>>)
            /\ UNCHANGED storeVars
       ELSE IF FilesPresent = {}
       THEN /\ last' = Call("refresh_project", name, "", Raised, <<>>)
            /\ UNCHANGED storeVars
       ELSE LET docs == load_data(TRUE)
                r    == refresh_ref_docs(docs, 1, new_docstore, points[name], <<>>)
            IN /\ nextId + Len(docs) - 1 <= MaxId
               /\ nextId' = nextId + Len(docs)
               /\ _graph_stores' = get_index_stores(name, "None")
               /\ points' = [points EXCEPT ![name] = r.pts]
               /\ last' = Call("refresh_project", name, "",
                               Dict(<<"refreshed", "total", "unchanged", "collection">>),
                               refresh_result(r.flags, docs))
               /\ UNCHANGED <<collections, fs, createdMode>>
    /\ UNCHANGED <<cacheVars, resVars, thrVars, schedVars, connVars, callVars, age>>

----------------------------------------------------------------------------
(* core/index_helper.py get_index, called on its own *)

get_index(collection_name, mode) ==
    /\ _graph_stores' = get_index_stores(collection_name, mode)
    /\ last' = Call("get_index", collection_name, mode,
                    Index(get_index_kind(collection_name, mode)), <<>>)
    /\ UNCHANGED <<collections, points, fs, nextId, createdMode, cacheVars,
                   resVars, thrVars, schedVars, connVars, callVars, age>>

----------------------------------------------------------------------------
(* core/doc_intelligence.py *)

ConfidenceThreshold == 70        \* nodes[0].score > 0.7
Frameworks == {"react"}

\* DocIntelligence.check_exists(component, framework)
DocIntelligence_check_exists(framework) ==
    LET collection_name == "docs_" \o framework IN
    /\ IF collection_name \notin collections
       THEN last' = Call("DocIntelligence.check_exists", collection_name, "",
                         Dict(<<"exists", "error">>), <<0>>)
       ELSE \E score \in RetrieveOutcomes(collection_name) :
            last' = IF score # -1 /\ score > ConfidenceThreshold
                    THEN Call("DocIntelligence.check_exists", collection_name, "",
                              Dict(<<"exists", "confidence", "context", "framework">>),
                              <<1, score>>)
                    ELSE Call("DocIntelligence.check_exists", collection_name, "",
                              Dict(<<"exists", "framework", "message">>), <<0>>)
    /\ UNCHANGED <<storeVars, cacheVars, resVars, thrVars, schedVars, connVars, callVars, age>>

\* what search_pattern returns when the framework is not indexed, and when
\* the query engine raises
NotIndexedText(framework) ==
    PyStr(<<"Framework '", framework, "' not indexed. Run: semantic-search docs index ", framework>>)
ErrorText(framework) == PyStr(<<"Error searching ", framework, " docs">>)

\* DocIntelligence.search_pattern(query, framework), routed to the indexed
\* documentation
search_pattern(query, framework) ==
    LET collection_name == "docs_" \o framework
        cached          == QueryCache_get(query, collection_name)
    IN /\ IF cached # None
          THEN /\ last' = Call("search_pattern", collection_name, query, cached, <<1>>)
               /\ UNCHANGED <<redis, age>>
          ELSE IF collection_name \notin collections
          THEN /\ last' = Call("search_pattern", collection_name, query,
                               NotIndexedText(framework), <<0>>)
               /\ UNCHANGED <<redis, age>>
          ELSE \E result \in QueryOutcomes(collection_name) :
               /\ redis' = IF result = Raised THEN redis
                           ELSE QueryCache_set_redis(query, collection_name, result)
               /\ age' = IF result = Raised THEN age
                         ELSE QueryCache_set_age(query, collection_name, result)
               /\ last' = Call("search_pattern", collection_name, query,
                               IF result = Raised THEN ErrorText(framework)
                               ELSE result, <<0>>)
       /\ UNCHANGED <<storeVars, redis_up, redis_enabled, enabled, resVars,
                      thrVars, schedVars, connVars, callVars>>

----------------------------------------------------------------------------
(* The query cache called directly (core/redis_cache.py, as api.py does) *)

QueryCache_get_call(query, limit, collection) ==
    /\ last' = Call("QueryCache.get", collection, cache_key(query, limit),
                    QueryCache_get(cache_key(query, limit), collection), <<>>)
    /\ UNCHANGED <<storeVars, cacheVars, resVars, thrVars, schedVars, connVars, callVars, age>>

QueryCache_set_call(query, limit, collection, result) ==
    /\ redis' = QueryCache_set_redis(cache_key(query, limit), collection, result)
    /\ age' = QueryCache_set_age(cache_key(query, limit), collection, result)
    /\ last' = Call("QueryCache.set", collection, cache_key(query, limit),
                    IF QueryCache_set_ret(cache_key(query, limit), collection, result)
                    THEN PyTrue ELSE PyFalse, <<>>)
    /\ UNCHANGED <<storeVars, redis_up, redis_enabled, enabled, resVars, thrVars,
                   schedVars, connVars, callVars>>

QueryCache_delete_call(query, limit, collection) ==
    /\ redis' = QueryCache_delete_redis(cache_key(query, limit), collection)
    /\ age' = QueryCache_delete_age(cache_key(query, limit), collection)
    /\ last' = Call("QueryCache.delete", collection, cache_key(query, limit),
                    IF QueryCache_delete_ret(cache_key(query, limit), collection)
                    THEN PyTrue ELSE PyFalse, <<>>)
    /\ UNCHANGED <<storeVars, redis_up, redis_enabled, enabled, resVars, thrVars,
                   schedVars, connVars, callVars>>

----------------------------------------------------------------------------
(* The environment: files are edited, the cache backend goes away and returns *)

WriteFile(f, v) ==
    /\ v # fs[f]
    /\ fs' = [fs EXCEPT ![f] = v]
    /\ last' = Call("env", "", "", None, <<>>)
    /\ UNCHANGED <<collections, points, _graph_stores, nextId, createdMode,
                   cacheVars, resVars, thrVars, schedVars, connVars, callVars, age>>

RedisFlip ==
    /\ redis_up' = ~redis_up
    /\ last' = Call("env", "", "", None, <<>>)
    /\ UNCHANGED <<storeVars, redis, redis_enabled, enabled, resVars, thrVars,
                   schedVars, connVars, callVars, age>>

----------------------------------------------------------------------------
(* Specifications *)

\* Searching over collections that are indexed and cleared
NextSearch ==
    \/ \E q \in Queries, n \in Names, k \in Limits : search(q, n, k)
    \/ \E n \in Names, m \in {"None", "basic"} :
          nextId <= MaxSearchId /\ index_project(n, m)
    \/ \E n \in Names : clear_project(n)

Spec == Init /\ [][NextSearch]_vars

\* The query cache used directly, over a backend that comes and goes
NextCache ==
    \/ \E q \in Queries, n \in Names, k \in Limits : QueryCache_get_call(q, k, n)
    \/ \E q \in Queries, n \in Names, k \in Limits, a \in Answers :
          QueryCache_set_call(q, k, n, PyStr(a))
    \/ \E q \in Queries, n \in Names, k \in Limits : QueryCache_delete_call(q, k, n)
    \/ RedisFlip

SpecCache == Init /\ [][NextCache]_vars

\* One collection, with the cache backend up and configured on
IndexNames == {"docs_react"}

InitIndex == Init /\ redis_up /\ redis_enabled

\* Indexing, opening and probing the collection
NextIndex ==
    \/ \E n \in IndexNames, m \in {"None", "basic", "graph"} : index_project(n, m)
    \/ \E n \in IndexNames : clear_project(n)
    \/ \E n \in IndexNames, m \in ModeArgs : get_index(n, m)
    \/ \E n \in IndexNames : check_exists(n)
    \/ \E f \in Frameworks : DocIntelligence_check_exists(f)

SpecIndex == InitIndex /\ [][NextIndex]_vars

\* Indexing and refreshing the collection while its files are edited
NextRefresh ==
    \/ \E n \in IndexNames, m \in {"None", "basic"} : index_project(n, m)
    \/ \E n \in IndexNames : clear_project(n)
    \/ \E n \in IndexNames : refresh_project(n)
    \/ \E i \in 1..Len(Files), v \in 0..MaxVersion : WriteFile(Files[i], v)

SpecRefresh == InitIndex /\ [][NextRefresh]_vars

\* Code search and documentation pattern search over one documentation
\* collection, which share the query cache
NextDocs ==
    \/ \E q \in Queries, n \in IndexNames, k \in Limits : search(q, n, k)
    \/ \E q \in PatternQueries, f \in Frameworks : search_pattern(q, f)
    \/ \E n \in IndexNames : nextId <= MaxSearchId /\ index_project(n, "basic")
    \/ \E n \in IndexNames : clear_project(n)

SpecDocs == InitIndex /\ [][NextDocs]_vars

\* time passes: every stored entry grows older by one TTL (ages are kept up
\* to twice the TTL; the backend expires nothing, no entry carries an expiry)
Tick ==
    /\ \E c \in CacheSlots : redis[c] # Nil /\ age[c] < 2 * REDIS_TTL
    /\ age' = [c \in CacheSlots |->
                 IF redis[c] = Nil THEN 0
                 ELSE IF age[c] + REDIS_TTL > 2 * REDIS_TTL THEN 2 * REDIS_TTL
                 ELSE age[c] + REDIS_TTL]
    /\ last' = Call("env", "", "", None, <<>>)
    /\ UNCHANGED <<storeVars, cacheVars, resVars, thrVars, schedVars, connVars, callVars>>

\* The query cache used directly while time passes
NextTtl ==
    \/ \E q \in Queries, n \in IndexNames, k \in Limits : QueryCache_get_call(q, k, n)
    \/ \E q \in Queries, n \in IndexNames, k \in Limits, a \in Answers :
          QueryCache_set_call(q, k, n, PyStr(a))
    \/ \E q \in Queries, n \in IndexNames, k \in Limits : QueryCache_delete_call(q, k, n)
    \/ Tick

SpecTtl == InitIndex /\ [][NextTtl]_vars

MaxAttempts == 3      \* connection attempts to the Redis backend explored

IngestionCache == [t |-> "IngestionCache", s |-> <<>>]

\* redis_cache.get_ingestion_cache(): get_or_create_redis_store() connects
\* again whenever _redis_store is still None
get_ingestion_cache ==
    /\ IF _redis_store
       THEN /\ last' = Call("get_ingestion_cache", "", "", IngestionCache, <<0>>)
            /\ UNCHANGED connVars
       ELSE /\ attempts < MaxAttempts
            /\ attempts' = attempts + 1
            /\ _redis_store' = redis_up
            /\ last' = Call("get_ingestion_cache", "", "",
                            IF redis_up THEN IngestionCache ELSE None, <<1>>)
    /\ UNCHANGED <<storeVars, cacheVars, resVars, thrVars, schedVars, callVars, age>>

\* The cache and the ingestion cache over a backend that comes and goes
NextDegrade ==
    \/ get_ingestion_cache
    \/ RedisFlip
    \/ \E q \in Queries, n \in IndexNames, k \in Limits : QueryCache_get_call(q, k, n)
    \/ \E q \in Queries, n \in IndexNames, k \in Limits, a \in Answers :
          QueryCache_set_call(q, k, n, PyStr(a))

SpecDegrade == Init /\ [][NextDegrade]_vars

----------------------------------------------------------------------------
(* Lazily created process-wide resources: core/config.py,                  *)
(* core/resources/qdrant_manager.py, cache_manager.py, index_manager.py,   *)
(* core/intelligence/__init__.py.  Each accessor is                        *)
(*     if _x is None: _x = X(...)                                          *)
(*     return _x                                                           *)

\* the slot after `_x = X(...)`
slot_assign(r, inst) == [slot EXCEPT ![r] = inst]

\* close that leaves the closed client in the slot
slot_kept(r) == slot

\* the slot after close: `_qdrant_client = None`
slot_reset(r) == [slot EXCEPT ![r] = 0]

\* one whole accessor call, nothing else running
lazy_get(r) ==
    /\ IF slot[r] = 0
       THEN /\ nextInst[r] < MaxInst
            /\ nextInst' = [nextInst EXCEPT ![r] = @ + 1]
            /\ slot' = slot_assign(r, nextInst[r] + 1)
            /\ last' = Call("get", r, "", None, <<nextInst[r] + 1>>)
       ELSE /\ last' = Call("get", r, "", None, <<slot[r]>>)
            /\ UNCHANGED <<slot, nextInst>>
    /\ UNCHANGED <<closed, storeVars, cacheVars, thrVars, schedVars, connVars, callVars, age>>

\* one whole close call
lazy_close(r) ==
    /\ IF slot[r] # 0
       THEN /\ closed' = closed \cup {<<r, slot[r]>>}
            /\ slot' = slot_reset(r)
       ELSE UNCHANGED <<closed, slot>>
    /\ last' = Call("close", r, "", None, <<>>)
    /\ UNCHANGED <<nextInst, storeVars, cacheVars, thrVars, schedVars, connVars, callVars, age>>

get_qdrant_client          == lazy_get("_qdrant_client")
close_qdrant_client        == lazy_close("_qdrant_client")
QdrantResourceManager_client == lazy_get("QdrantResourceManager._qdrant_client")
close_client               == lazy_close("QdrantResourceManager._qdrant_client")
get_cache_manager          == lazy_get("_cache_manager")

NextLifecycle ==
    \/ get_qdrant_client
    \/ close_qdrant_client
    \/ QdrantResourceManager_client
    \/ close_client
    \/ get_cache_manager

SpecLifecycle == InitIndex /\ [][NextLifecycle]_vars

----------------------------------------------------------------------------
(* The same accessors called from request threads: a thread may be         *)
(* descheduled between the test, the construction, the store and the       *)
(* return.                                                                 *)

ThreadResources == {"_qdrant_client", "_cache_manager"}

\* a thread enters the accessor of resource r
acc_call(t, r) ==
    /\ pc[t] = "idle"
    /\ pc' = [pc EXCEPT ![t] = "test"]
    /\ want' = [want EXCEPT ![t] = r]
    /\ UNCHANGED <<tmp, got, resVars, storeVars, cacheVars, last,
                   schedVars, connVars, callVars, age>>

\* `if _x is None:`
acc_test(t) ==
    /\ pc[t] = "test"
    /\ pc' = [pc EXCEPT ![t] = IF slot[want[t]] = 0 THEN "construct" ELSE "return"]
    /\ UNCHANGED <<want, tmp, got, resVars, storeVars, cacheVars, last,
                   schedVars, connVars, callVars, age>>

\* `X(...)`: a new instance
acc_construct(t) ==
    /\ pc[t] = "construct"
    /\ nextInst' = [nextInst EXCEPT ![want[t]] = @ + 1]
    /\ tmp' = [tmp EXCEPT ![t] = nextInst[want[t]] + 1]
    /\ pc' = [pc EXCEPT ![t] = "store"]
    /\ UNCHANGED <<want, got, slot, closed, storeVars, cacheVars, last,
                   schedVars, connVars, callVars, age>>

\* `_x = ...`
acc_store(t) ==
    /\ pc[t] = "store"
    /\ slot' = slot_assign(want[t], tmp[t])
    /\ pc' = [pc EXCEPT ![t] = "return"]
    /\ UNCHANGED <<want, tmp, got, nextInst, closed, storeVars, cacheVars, last,
                   schedVars, connVars, callVars, age>>

\* `return _x`
acc_return(t) ==
    /\ pc[t] = "return"
    /\ got' = [got EXCEPT ![t][want[t]] = slot[want[t]]]
    /\ pc' = [pc EXCEPT ![t] = "idle"]
    /\ UNCHANGED <<want, tmp, resVars, storeVars, cacheVars, last,
                   schedVars, connVars, callVars, age>>

NextThreads ==
    \/ \E t \in Threads, r \in ThreadResources : acc_call(t, r)
    \/ \E t \in Threads : acc_test(t)
    \/ \E t \in Threads : acc_construct(t)
    \/ \E t \in Threads : acc_store(t)
    \/ \E t \in Threads : acc_return(t)

SpecThreads == InitIndex /\ [][NextThreads]_vars

----------------------------------------------------------------------------
(* ComponentRegistry.get_component called from request threads:            *)
(* core/component_registry.py                                              *)

\* a thread enters get_component(domain, component)
reg_call(t, key) ==
    /\ pc[t] = "idle"
    /\ pc' = [pc EXCEPT ![t] = "reg_test"]
    /\ want' = [want EXCEPT ![t] = key]
    /\ UNCHANGED <<tmp, got, resVars, storeVars, cacheVars, last,
                   schedVars, connVars, callVars, age>>

\* `if cache_key in self._cache: return self._cache[cache_key]`
reg_test(t) ==
    LET r == registry_slot(want[t]) IN
    /\ pc[t] = "reg_test"
    /\ IF slot[r] # 0
       THEN /\ got' = [got EXCEPT ![t][r] = slot[r]]
            /\ pc' = [pc EXCEPT ![t] = "idle"]
       ELSE /\ pc' = [pc EXCEPT ![t] = "reg_build"]
            /\ UNCHANGED got
    /\ UNCHANGED <<want, tmp, resVars, storeVars, cacheVars, last,
                   schedVars, connVars, callVars, age>>

\* the import and `instance = factory()`; a module that is not there ends
\* the call with ValueError
reg_build(t) ==
    LET r == registry_slot(want[t]) IN
    /\ pc[t] = "reg_build"
    /\ IF want[t] \in Importable
       THEN /\ nextInst' = [nextInst EXCEPT ![r] = @ + 1]
            /\ tmp' = [tmp EXCEPT ![t] = nextInst[r] + 1]
            /\ pc' = [pc EXCEPT ![t] = "reg_store"]
       ELSE /\ pc' = [pc EXCEPT ![t] = "idle"]
            /\ UNCHANGED <<nextInst, tmp>>
    /\ UNCHANGED <<want, got, slot, closed, storeVars, cacheVars, last,
                   schedVars, connVars, callVars, age>>

\* `self._cache[cache_key] = instance; return instance`
reg_store(t) ==
    LET r == registry_slot(want[t]) IN
    /\ pc[t] = "reg_store"
    /\ slot' = slot_assign(r, tmp[t])
    /\ got' = [got EXCEPT ![t][r] = tmp[t]]
    /\ pc' = [pc EXCEPT ![t] = "idle"]
    /\ UNCHANGED <<want, tmp, nextInst, closed, storeVars, cacheVars, last,
                   schedVars, connVars, callVars, age>>

NextRegistry ==
    \/ \E t \in Threads, k \in Components : reg_call(t, k)
    \/ \E t \in Threads : reg_test(t)
    \/ \E t \in Threads : reg_build(t)
    \/ \E t \in Threads : reg_store(t)

SpecRegistry == InitIndex /\ [][NextRegistry]_vars

----------------------------------------------------------------------------
(* The graph-store map reached from request threads: the get-or-create of  *)
(* core/index_helper.py get_graph_index, which core/semantic_search.py     *)
(* index_project repeats                                                   *)

\* a thread reaches the get-or-create for a collection
gs_call(t, name) ==
    /\ pc[t] = "idle"
    /\ pc' = [pc EXCEPT ![t] = "gs_test"]
    /\ want' = [want EXCEPT ![t] = name]
    /\ UNCHANGED <<tmp, got, resVars, storeVars, cacheVars, last,
                   schedVars, connVars, callVars, age>>

\* `if collection_name not in _graph_stores:`
gs_test(t) ==
    /\ pc[t] = "gs_test"
    /\ pc' = [pc EXCEPT ![t] = IF want[t] \notin _graph_stores
                               THEN "gs_construct" ELSE "gs_use"]
    /\ UNCHANGED <<want, tmp, got, resVars, storeVars, cacheVars, last,
                   schedVars, connVars, callVars, age>>

\* `SimplePropertyGraphStore()`
gs_construct(t) ==
    LET r == graph_store_slot(want[t]) IN
    /\ pc[t] = "gs_construct"
    /\ nextInst' = [nextInst EXCEPT ![r] = @ + 1]
    /\ tmp' = [tmp EXCEPT ![t] = nextInst[r] + 1]
    /\ pc' = [pc EXCEPT ![t] = "gs_store"]
    /\ UNCHANGED <<want, got, slot, closed, storeVars, cacheVars, last,
                   schedVars, connVars, callVars, age>>

\* `_graph_stores[collection_name] = ...`
gs_store(t) ==
    /\ pc[t] = "gs_store"
    /\ slot' = slot_assign(graph_store_slot(want[t]), tmp[t])
    /\ _graph_stores' = _graph_stores \cup {want[t]}
    /\ pc' = [pc EXCEPT ![t] = "gs_use"]
    /\ UNCHANGED <<want, tmp, got, nextInst, closed, collections, points, fs,
                   nextId, createdMode, cacheVars, last,
                   schedVars, connVars, callVars, age>>

\* `property_graph_store=_graph_stores[collection_name]`: the store the
\* caller's index writes its triplets into
gs_use(t) ==
    LET r == graph_store_slot(want[t]) IN
    /\ pc[t] = "gs_use"
    /\ got' = [got EXCEPT ![t][r] = slot[r]]
    /\ pc' = [pc EXCEPT ![t] = "idle"]
    /\ UNCHANGED <<want, tmp, resVars, storeVars, cacheVars, last,
                   schedVars, connVars, callVars, age>>

NextGraphStores ==
    \/ \E t \in Threads, n \in Names : gs_call(t, n)
    \/ \E t \in Threads : gs_test(t)
    \/ \E t \in Threads : gs_construct(t)
    \/ \E t \in Threads : gs_store(t)
    \/ \E t \in Threads : gs_use(t)

SpecGraphStores == InitIndex /\ [][NextGraphStores]_vars

----------------------------------------------------------------------------
(* The documentation refresh scheduler: core/doc_refresh.py, started by    *)
(* the application's startup event (integrations/api.py)                   *)

MaxWorkers == 2       \* worker threads started in the runs explored

Schedules == {"daily", "weekly", "monthly", "hourly"}

\* the configuration file read when the process starts
load_config(e, sch) ==
    /\ last.op = "init"
    /\ refresh_config' = [enabled |-> e, schedule |-> sch]
    /\ last' = Call("env", "", "", None, <<>>)
    /\ UNCHANGED <<workers, shutdown, storeVars, cacheVars, resVars, thrVars,
                   connVars, callVars, age>>

\* calculate_next_refresh_time with a 31-day month
calculate_next_refresh_time_31(schedule) ==
    CASE schedule = "daily"   -> 24 * 60 * 60
      [] schedule = "weekly"  -> 7 * 24 * 60 * 60
      [] schedule = "monthly" -> 31 * 24 * 60 * 60
      [] OTHER                -> 7 * 24 * 60 * 60

\* calculate_next_refresh_time(schedule)
calculate_next_refresh_time(schedule) ==
    CASE schedule = "daily"   -> 24 * 60 * 60
      [] schedule = "weekly"  -> 7 * 24 * 60 * 60
      [] schedule = "monthly" -> 30 * 24 * 60 * 60
      [] OTHER                -> 7 * 24 * 60 * 60

\* a worker thread: where it is, what its last cycle came to, and the
\* seconds it handed to time.sleep
Worker(at, outcome, sleep_time) ==
    [pc |-> at, outcome |-> outcome, sleep_time |-> sleep_time]

\* start_refresh_scheduler(); startup_event calls it
start_refresh_scheduler ==
    /\ IF ~refresh_config.enabled
       THEN /\ last' = Call("start_refresh_scheduler", "", "", None, <<0>>)
            /\ UNCHANGED workers
       ELSE /\ Len(workers) < MaxWorkers
            /\ workers' = Append(workers, Worker("cycle", "none", 0))
            /\ last' = Call("start_refresh_scheduler", "", "", None, <<1>>)
    /\ UNCHANGED <<refresh_config, shutdown, storeVars, cacheVars, resVars,
                   thrVars, connVars, callVars, age>>

\* the worker after the body of its `try`: asleep for the schedule interval
\* when the body ran through, for an hour when an exception escaped it
after_cycle(w, outcome) ==
    [workers EXCEPT ![w] =
        Worker("sleep", outcome,
               IF outcome = "exception" THEN 3600
               ELSE calculate_next_refresh_time(refresh_config.schedule))]

\* one pass of refresh_worker's loop body over the configured framework:
\* the docs path may be missing, Qdrant may fail (the exception escapes
\* refresh_documentation_collection, whose first lines are outside its try),
\* the refresh may return an error result, or it refreshes the collection
refresh_cycle(w, framework) ==
    LET collection_name == "docs_" \o framework IN
    /\ workers[w].pc = "cycle"
    /\ \E path_exists \in BOOLEAN, qdrant_ok \in BOOLEAN :
         IF ~path_exists
         THEN /\ workers' = after_cycle(w, "path_missing")
              /\ UNCHANGED storeVars
         ELSE IF ~qdrant_ok
         THEN /\ workers' = after_cycle(w, "exception")
              /\ UNCHANGED storeVars
         ELSE IF collection_name \notin collections \/ FilesPresent = {}
         THEN /\ workers' = after_cycle(w, "error_result")
              /\ UNCHANGED storeVars
         ELSE LET docs == load_data(FALSE)
                  r    == refresh_ref_docs(docs, 1, new_docstore,
                                           points[collection_name], <<>>)
              IN /\ nextId + Len(docs) - 1 <= MaxId
                 /\ nextId' = nextId + Len(docs)
                 /\ points' = [points EXCEPT ![collection_name] = r.pts]
                 /\ workers' = after_cycle(w, "refreshed")
                 /\ UNCHANGED <<collections, _graph_stores, fs, createdMode>>
    /\ last' = Call("refresh_worker", collection_name, "", None, <<w>>)
    /\ UNCHANGED <<refresh_config, shutdown, cacheVars, resVars, thrVars,
                   connVars, callVars, age>>

\* time.sleep returns and the loop goes round
wake(w) ==
    /\ workers[w].pc = "sleep"
    /\ workers' = [workers EXCEPT ![w] = Worker("cycle", @.outcome, 0)]
    /\ last' = Call("refresh_worker", "", "", None, <<w>>)
    /\ UNCHANGED <<refresh_config, shutdown, storeVars, cacheVars, resVars,
                   thrVars, connVars, callVars, age>>

\* shutdown_event: close_qdrant_client(), nothing else
shutdown_event ==
    /\ shutdown' = TRUE
    /\ IF slot["_qdrant_client"] # 0
       THEN /\ closed' = closed \cup {<<"_qdrant_client", slot["_qdrant_client"]>>}
            /\ slot' = slot_reset("_qdrant_client")
       ELSE UNCHANGED <<closed, slot>>
    /\ last' = Call("shutdown_event", "", "", None, <<>>)
    /\ UNCHANGED <<refresh_config, workers, nextInst, storeVars, cacheVars,
                   thrVars, connVars, callVars, age>>

NextScheduler ==
    \/ \E e \in BOOLEAN, sch \in Schedules : load_config(e, sch)
    \/ start_refresh_scheduler
    \/ \E w \in 1..Len(workers), f \in Frameworks : refresh_cycle(w, f)
    \/ \E w \in 1..Len(workers) : wake(w)
    \/ shutdown_event
    \/ \E n \in IndexNames : index_project(n, "basic")

SpecScheduler == InitIndex /\ [][NextScheduler]_vars

----------------------------------------------------------------------------
(* Properties of search and the query cache *)

\* the cache is configured on, was created against a reachable backend, and
\* the backend is up
CacheWorking == redis_enabled /\ enabled /\ redis_up

\* C1: when search(q, C, k) on an existing collection C has returned a value
\* and the very next operation is the same search(q, C, k), with the cache on
\* and its backend up, the second call returns the value of the first and is
\* served from the cache (it does not run the query engine again).
C1_SecondSearchIsTheFirst ==
    [][(/\ CacheWorking
        /\ last.op = "search" /\ last.ret # Raised
        /\ last.name \in collections
        /\ last'.op = "search"
        /\ last'.name = last.name /\ last'.arg = last.arg)
       => (last'.ret = last.ret /\ last'.nums = <<1>>)]_vars

\* the cache is disabled: configured off, or its backend was unreachable when
\* the cache was created
CacheDisabled == ~redis_enabled \/ ~enabled

\* C2: while the cache is disabled nothing is ever written to the backend, a
\* QueryCache.get returns None, a QueryCache.set returns False, and neither
\* raises.
C2_DisabledCacheIsInert ==
    CacheDisabled =>
        /\ \A c \in CacheSlots : redis[c] = Nil
        /\ last.ret # Raised
        /\ (last.op = "QueryCache.get" => last.ret = None)
        /\ (last.op = "QueryCache.set" => last.ret = PyFalse)

\* the string a search on an absent collection is specified to return
NotIndexed(name) == PyStr(<<"Error: Project '", name, "' not indexed">>)

\* C3: a search on a collection that is not in the vector store returns the
\* string "Error: Project '<name>' not indexed": it neither raises nor
\* returns an answer (search never creates a collection, so the collection
\* that is absent after the call was absent before it).
C3_SearchOnAbsentCollection ==
    (last.op = "search" /\ last.name \notin collections)
        => last.ret = NotIndexed(last.name)

----------------------------------------------------------------------------
(* Properties of opening, probing, refreshing and indexing a collection *)

\* the kind of index an explicit mode asks for
requested_kind(mode) ==
    IF mode = "graph" \/ mode = "enterprise" THEN "graph" ELSE "basic"

ExplicitModes == {"graph", "enterprise", "basic"}

C7_ExistsIffConfident ==
    (/\ last.op \in {"check_exists", "DocIntelligence.check_exists"}
     /\ last.name \in collections)
        => IF Len(last.nums) = 2
           THEN /\ last.nums[2] \in 0..100
                /\ (last.nums[1] = 1 <=> last.nums[2] >= ConfidenceThreshold)
           ELSE last.nums = <<0>>

\* the points of collection n that belong to document id
points_of(pts, id) == {p \in pts : p.ref = id}

\* C8: a refresh_project that ran to its result left the nodes of every
\* stored document that the input repeats with the same id and content, and
\* of every stored document absent from the input, as they were; and when
\* every input document is stored with the same id and content it reports
\* refreshed = 0 and leaves the point count as it was.
C8_RefreshTouchesOnlyChanges ==
    [][\A n \in IndexNames :
        (/\ last'.op = "refresh_project" /\ last'.name = n
         /\ Len(last'.nums) = 3
         /\ nextId' # nextId)
        => LET docs   == load_data(TRUE)
               same(k) == \E p \in points[n] :
                             p.ref = docs[k].id /\ p.hash = docs[k].hash
               input(p) == \E k \in 1..Len(docs) : docs[k].id = p.ref
           IN /\ \A k \in 1..Len(docs) :
                    same(k) => points_of(points'[n], docs[k].id)
                               = points_of(points[n], docs[k].id)
              /\ \A p \in points[n] : ~input(p) => p \in points'[n]
              /\ (\A k \in 1..Len(docs) : same(k))
                    => /\ last'.nums[1] = 0
                       /\ Cardinality(points'[n]) = Cardinality(points[n])]_vars

\* C9: a refresh_project that ran to its result returns refreshed, total and
\* unchanged with refreshed + unchanged = total = len(docs), refreshed and
\* unchanged both non-negative.
C9_RefreshCountsAddUp ==
    (last.op = "refresh_project" /\ Len(last.nums) = 3)
        => /\ last.nums[1] + last.nums[3] = last.nums[2]
           /\ last.nums[2] = Len(load_data(TRUE))
           /\ last.nums[1] >= 0
           /\ last.nums[3] >= 0

\* C9's case: a refresh over two documents has returned its counts
C9_Witness ==
    /\ last.op = "refresh_project"
    /\ Len(last.nums) = 3
    /\ last.nums[2] = 2

\* C10: when index_project has indexed a collection and the very next
\* operation indexes the same files into it again in the same mode, the
\* collection holds as many points after the second run as after the first.
C10_ReindexKeepsPointCount ==
    [][(/\ last.op = "index_project" /\ Len(last.nums) = 1
        /\ last'.op = "index_project" /\ Len(last'.nums) = 1
        /\ last'.name = last.name /\ last'.arg = last.arg
        /\ nextId' # nextId)
       => Cardinality(points'[last.name]) = Cardinality(points[last.name])]_vars

----------------------------------------------------------------------------
(* Properties of the lazily created resources *)

\* C5: at most one instance of each resource is ever created, and all the
\* threads that have been handed a resource hold the same instance.
C5_OneInstancePerResource ==
    \A r \in ThreadResources :
        /\ nextInst[r] <= 1
        /\ \A t1, t2 \in Threads :
              (got[t1][r] # 0 /\ got[t2][r] # 0) => got[t1][r] = got[t2][r]

\* the vector clients: the resources that can be closed
Closable == {"_qdrant_client", "QdrantResourceManager._qdrant_client"}

\* r has been closed at some time
was_closed(r) == \E c \in closed : c[1] = r

----------------------------------------------------------------------------
(* Properties of deleting a collection and of indexing an empty source *)

\* C11: after clear_project(name) has returned, it did not raise, the
\* collection is not in the vector store, it holds no point, and the process
\* holds no graph store for name (so that re-indexing starts from an empty
\* collection and an empty graph store).
C11_DeleteLeavesNothing ==
    last.op = "clear_project" =>
        /\ last.ret # Raised
        /\ last.name \notin collections
        /\ points[last.name] = {}
        /\ last.name \notin _graph_stores

\* C12: an index_project on a directory that holds no file returns the
\* error result {"error": ..., "path": ...} and leaves the set of
\* collections and the graph-store map as they were.
C12_EmptySourceIsAnErrorResult ==
    [][(last'.op = "index_project" /\ FilesPresent = {})
       => /\ last'.ret = Dict(<<"error", "path">>)
          /\ collections' = collections
          /\ _graph_stores' = _graph_stores]_vars

----------------------------------------------------------------------------
(* Properties of the refresh scheduler *)

\* C13: once the shutdown event has run, no refresh worker leaves its sleep
\* to start another refresh cycle.
C13_NoCycleAfterShutdown ==
    [][shutdown =>
         \A w \in 1..Len(workers) :
            ~(workers[w].pc = "sleep" /\ workers'[w].pc = "cycle")]_vars

\* C14: a refresh worker is always either in a cycle or asleep (it never
\* exits); asleep after a cycle from which no exception escaped (framework
\* refreshed, error result, or docs path missing) it sleeps the schedule
\* interval, 86400 s for daily, 604800 s for weekly, 2592000 s for monthly;
\* asleep after a cycle aborted by an exception it sleeps 3600 s.
C14_SleepFollowsOutcome ==
    \A w \in 1..Len(workers) :
        LET k == workers[w] IN
        /\ k.pc \in {"cycle", "sleep"}
        /\ k.pc = "sleep" =>
             /\ k.outcome \in {"refreshed", "error_result", "path_missing",
                               "exception"}
             /\ (k.outcome = "exception" => k.sleep_time = 3600)
             /\ (k.outcome # "exception" =>
                   /\ (refresh_config.schedule = "daily"
                         => k.sleep_time = 86400)
                   /\ (refresh_config.schedule = "weekly"
                         => k.sleep_time = 604800)
                   /\ (refresh_config.schedule = "monthly"
                         => k.sleep_time = 2592000))

\* C14's case: on a monthly schedule one worker sleeps after a cycle that
\* found the docs path missing while another sleeps after a cycle aborted
\* by an exception
C14_Witness ==
    /\ refresh_config.schedule = "monthly"
    /\ \E w1, w2 \in 1..Len(workers) :
         /\ workers[w1].pc = "sleep" /\ workers[w1].outcome = "path_missing"
         /\ workers[w2].pc = "sleep" /\ workers[w2].outcome = "exception"

\* C15: the number of refresh workers running is 0 when the refresh is
\* configured off and at most 1 when it is on.
C15_AtMostOneWorker ==
    Len(workers) <= (IF refresh_config.enabled THEN 1 ELSE 0)

----------------------------------------------------------------------------
(* Properties of the registry and of the graph-store map under threads *)

\* C16: for every component key the registry constructs at most one
\* instance, and all the threads that have been handed the component hold
\* the same instance.
C16_ComponentBuiltOnce ==
    \A k \in Components :
        LET r == registry_slot(k) IN
        /\ nextInst[r] <= 1
        /\ \A t1, t2 \in Threads :
              (got[t1][r] # 0 /\ got[t2][r] # 0) => got[t1][r] = got[t2][r]

\* C17: for every collection name at most one graph store is ever created,
\* and the store any caller has taken from the map is the store the map
\* holds (no caller uses a store that has been replaced).
C17_GraphStoreCreatedOnce ==
    \A n \in Names :
        LET r == graph_store_slot(n) IN
        /\ nextInst[r] <= 1
        /\ \A t \in Threads : got[t][r] # 0 => got[t][r] = slot[r]

----------------------------------------------------------------------------
(* Properties of the cache's keys, expiry and degradation *)

\* the lookups the operations sharing the cache can make: what was asked
\* (query, limit, collection; a pattern search has no limit, written 0)
SearchRequests ==
    [op : {"search"}, query : Queries, limit : Limits, collection : Names]
PatternRequests ==
    [op : {"search_pattern"}, query : PatternQueries, limit : {0},
     collection : {"docs_" \o f : f \in Frameworks}]
Requests == SearchRequests \cup PatternRequests

\* the query string a request hands to the cache
request_arg(r) ==
    IF r.op = "search" THEN cache_key(r.query, r.limit) ELSE r.query

\* the requests the last call may have been
LastRequests ==
    {r \in Requests : /\ r.op = last.op
                      /\ r.collection = last.name
                      /\ request_arg(r) = last.arg}

\* C18: the cache entry the last search or pattern search addressed is the
\* entry of no request that differs from it in the query, in the limit or
\* in the collection.
C18_KeysSeparateRequests ==
    \A r1 \in LastRequests, r2 \in Requests :
        <<r1.query, r1.limit, r1.collection>> # <<r2.query, r2.limit, r2.collection>>
            => cache_entry(request_arg(r1), r1.collection)
               # cache_entry(request_arg(r2), r2.collection)


\* C19: a QueryCache.get issued more than the TTL after the entry it
\* addresses was written returns a miss.
C19_ExpiredEntryIsAMiss ==
    (/\ last.op = "QueryCache.get"
     /\ age[cache_entry(last.arg, last.name)] > REDIS_TTL)
        => last.ret = None

\* C20: when the first connection attempt to the cache backend failed (the
\* query cache was created disabled), no further connection attempt is ever
\* made and the process never holds a store.
C20_DegradationDecidedOnce ==
    ~enabled => (attempts = 1 /\ ~_redis_store)

----------------------------------------------------------------------------
(* A process restart: the modules are imported again, so every module-level *)
(* name starts from its initial value, while Qdrant, Redis, the files and   *)
(* the configuration keep what they hold                                    *)

restart ==
    /\ _graph_stores' = {}
    /\ slot' = [r \in Resources |-> 0]
    /\ pc' = [t \in Threads |-> "idle"]
    /\ want' = [t \in Threads |-> "none"]
    /\ tmp' = [t \in Threads |-> 0]
    /\ got' = [t \in Threads |-> [r \in Resources |-> 0]]
    /\ workers' = <<>>
    /\ shutdown' = FALSE
    /\ enabled' = redis_up
    /\ _redis_store' = redis_up
    /\ attempts' = 1
    /\ local' = [t \in Threads |-> NoCall]
    /\ workflow_state' = [n \in Names |-> NoWorkflow]
    /\ last' = Call("restart", "", "", None, <<>>)
    /\ UNCHANGED <<collections, points, fs, nextId, createdMode, redis, redis_up,
                   redis_enabled, nextInst, closed, refresh_config, age,
                   doubles, workflow_file, jsonl>>

\* Indexing and opening a collection across process restarts
NextRestart ==
    \/ \E n \in IndexNames, m \in {"None", "basic", "graph"} : index_project(n, m)
    \/ \E n \in IndexNames : clear_project(n)
    \/ \E n \in IndexNames, m \in ModeArgs : get_index(n, m)
    \/ \E i \in 1..Len(Files), v \in 0..MaxVersion : WriteFile(Files[i], v)
    \/ restart

SpecRestart == InitIndex /\ [][NextRestart]_vars

\* C21: a get_index call in auto mode (or with no mode, the configuration
\* being auto) on an existing collection that was created in graph mode
\* returns a graph index, whatever happened since the collection was
\* indexed, a process restart included.
C21_ModeIsPersisted ==
    (/\ last.op = "get_index"
     /\ effective_mode(last.arg) = "auto"
     /\ last.name \in collections
     /\ createdMode[last.name] = "graph")
        => last.ret = Index("graph")

----------------------------------------------------------------------------
(* core/semantic_search.py search called from request threads: a thread    *)
(* may be descheduled between the cache lookup, the query and the cache    *)
(* write                                                                   *)

\* the cache entry the call of thread t addresses
local_entry(t) == cache_entry(local[t].key, local[t].project)

\* the threads other than t that have missed the entry of t and not yet
\* written or failed
in_flight(t) ==
    {u \in Threads \ {t} : /\ pc[u] \in {"s_query", "s_set"}
                           /\ local_entry(u) = local_entry(t)}

\* a thread enters search(query, project, limit): `cache_key = f"{query}:{limit}"`
srch_call(t, query, project, limit) ==
    /\ pc[t] = "idle"
    /\ pc' = [pc EXCEPT ![t] = "s_get"]
    /\ local' = [local EXCEPT ![t] = [key |-> cache_key(query, limit),
                                      project |-> project, result |-> None,
                                      ret |-> None, overlap |-> FALSE]]
    /\ UNCHANGED <<want, tmp, got, resVars, storeVars, cacheVars, last,
                   schedVars, connVars, doubles, workflow_state, workflow_file, jsonl, age>>

\* `cached = query_cache.get(cache_key, project)`,
\* `if cached is not None: return cached`
srch_get(t) ==
    LET cached == QueryCache_get(local[t].key, local[t].project) IN
    /\ pc[t] = "s_get"
    /\ IF cached # None
       THEN /\ pc' = [pc EXCEPT ![t] = "idle"]
            /\ local' = [local EXCEPT ![t].ret = cached]
            /\ last' = Call("search", local[t].project, local[t].key, cached, <<1>>)
       ELSE /\ pc' = [pc EXCEPT ![t] = "s_query"]
            /\ UNCHANGED <<local, last>>
    /\ UNCHANGED <<want, tmp, got, resVars, storeVars, cacheVars,
                   schedVars, connVars, doubles, workflow_state, workflow_file, jsonl, age>>

\* search going on to the cache write whatever the query did
after_query_always_set(result) == "s_set"

\* where search is after the query: an exception leaves the function, a
\* result goes on to the cache write
after_query(result) == IF result = Raised THEN "idle" ELSE "s_set"

\* `result = str(get_index(project).as_query_engine(...).query(query))`:
\* retrieval and synthesis, inside the one library call
srch_query(t) ==
    /\ pc[t] = "s_query"
    /\ \E result \in QueryOutcomes(local[t].project) :
         /\ _graph_stores' = get_index_stores(local[t].project, "None")
         /\ pc' = [pc EXCEPT ![t] = after_query(result)]
         /\ IF after_query(result) = "idle"
            THEN /\ local' = [local EXCEPT ![t].ret = result]
                 /\ last' = Call("search", local[t].project, local[t].key, result, <<0>>)
            ELSE /\ local' = [local EXCEPT ![t].result = result]
                 /\ UNCHANGED last
    /\ UNCHANGED <<want, tmp, got, resVars, collections, points, fs, nextId,
                   createdMode, cacheVars, schedVars, connVars, doubles,
                   workflow_state, workflow_file, jsonl, age>>

\* `query_cache.set(cache_key, project, result)`, `return result`.  The
\* history records a double write: a write by a call that missed before
\* another call's write of the same entry.
srch_set(t) ==
    /\ pc[t] = "s_set"
    /\ redis' = QueryCache_set_redis(local[t].key, local[t].project, local[t].result)
    /\ age' = QueryCache_set_age(local[t].key, local[t].project, local[t].result)
    /\ pc' = [pc EXCEPT ![t] = "idle"]
    /\ local' = [u \in Threads |->
                   IF u = t THEN [local[t] EXCEPT !.ret = local[t].result]
                   ELSE IF u \in in_flight(t) THEN [local[u] EXCEPT !.overlap = TRUE]
                   ELSE local[u]]
    /\ doubles' = IF local[t].overlap THEN doubles \cup {local_entry(t)} ELSE doubles
    /\ last' = Call("search", local[t].project, local[t].key, local[t].result, <<0>>)
    /\ UNCHANGED <<want, tmp, got, resVars, storeVars, redis_up, redis_enabled,
                   enabled, schedVars, connVars, workflow_state, workflow_file, jsonl>>

\* Concurrent searches over one collection
NextSearchThreads ==
    \/ \E t \in Threads, q \in Queries, n \in IndexNames, k \in Limits :
          srch_call(t, q, n, k)
    \/ \E t \in Threads : srch_get(t)
    \/ \E t \in Threads : srch_query(t)
    \/ \E t \in Threads : srch_set(t)
    \/ \E n \in IndexNames : nextId <= MaxSearchId /\ index_project(n, "basic")

SpecSearchThreads == InitIndex /\ [][NextSearchThreads]_vars

\* C22: once two concurrent searches of one fingerprint on an existing
\* collection have both missed and both written, the cache holds the entry, its value is the result one of
\* them computed, and a later search of the fingerprint (made while no other
\* call is between its miss and its write) is served that value from the
\* cache.
C22_DoubleWriteIsIdempotent ==
    [][\A t \in Threads :
         (/\ pc[t] = "s_get" /\ pc'[t] # "s_get"
          /\ local[t].project \in collections
          /\ local_entry(t) \in doubles
          /\ in_flight(t) = {})
         => /\ redis[local_entry(t)] # Nil
            /\ json_loads(redis[local_entry(t)]) \in QueryOutcomes(local[t].project)
                                                     \cup {PyStr(EmptyResponse)}
            /\ pc'[t] = "idle"
            /\ local'[t].ret = json_loads(redis[local_entry(t)])]_vars

\* C23: the cache changes only in the step in which a search that holds the
\* result of its query writes it (the write is the last step of the call, and
\* what is written is that result under the call's fingerprint); a search
\* whose query raised ends without having reached the write, the cache as it
\* was.
C23_CacheWriteComesLast ==
    [][/\ (redis' # redis =>
             \E t \in Threads :
                /\ pc[t] = "s_set" /\ pc'[t] = "idle"
                /\ local[t].result \in {PyStr(a) : a \in Answers \cup {EmptyResponse}}
                /\ local'[t].ret = local[t].result
                /\ redis' = RedisKVStore_put(_make_key(local[t].key),
                                             local[t].result, local[t].project))
       /\ \A t \in Threads :
             (pc[t] # "idle" /\ pc'[t] = "idle" /\ local'[t].ret = Raised)
                => (pc[t] = "s_query" /\ redis' = redis)]_vars

\* C23's case: a search has written its result after its query, and a search
\* whose query raised has ended with the cache entry of the first still there
C23_Witness ==
    \E t, u \in Threads :
       /\ t # u
       /\ pc[t] = "idle" /\ local[t].ret = Raised
       /\ pc[u] = "idle" /\ local[u].ret \in {PyStr(a) : a \in Answers}
       /\ local_entry(t) = local_entry(u)
       /\ redis[local_entry(u)] = json_dumps(local[u].ret)

----------------------------------------------------------------------------
(* core/components/analysis/violations.py.  The component is handed its    *)
(* intelligence resource; what the resource's search returns for each of   *)
(* the component's fixed queries is an input here: a text (the answer of   *)
(* the query engine or an earlier cached value) or an exception.           *)

List(entries) == [t |-> "list", s |-> entries]

\* str.lower(), on the fragments the texts below are made of
lower(s) == [i \in DOMAIN s |->
               CASE s[i] = "Empty Response" -> "empty response"
                 [] s[i] = "No violation"   -> "no violation"
                 [] s[i] = "Graph"          -> "graph"
                 [] OTHER                   -> s[i]]

\* str.strip()
RECURSIVE lstrip(_)
lstrip(s) == IF s # <<>> /\ Head(s) = " " THEN lstrip(Tail(s)) ELSE s
RECURSIVE rstrip(_)
rstrip(s) ==
    IF s # <<>> /\ s[Len(s)] = " " THEN rstrip(SubSeq(s, 1, Len(s) - 1)) ELSE s
strip(s) == rstrip(lstrip(s))

\* `word in text`
contains(s, word) == \E i \in 1..Len(s) : s[i] = word

ViolationTypes == <<"SRP", "DIP", "OCP", "DRY">>
CodeKeywords == {"class", "function", "method", ".py"}

\* what intelligence.search may hand back: an exception, an empty text, a
\* blank text, the engine's "Empty Response", prose, a text naming code
SearchResults ==
    {Raised, PyStr(<<>>), PyStr(<<" ">>), PyStr(<<" ", "Empty Response">>),
     PyStr(<<"No issues were found.">>),
     PyStr(<<"The ", "class", " Foo has 12 methods", " ">>)}

\* the entries the i-th violation query appends
query_entries(i, results) ==
    IF results = Raised
    THEN <<[kind |-> "Error", type |-> ViolationTypes[i]]>>
    ELSE IF /\ Truthy(results)
            /\ strip(results.s) # <<>>
            /\ ~contains(lower(results.s), "empty response")
    THEN <<[kind |-> "Found", type |-> ViolationTypes[i]]>>
         \o (IF \E keyword \in CodeKeywords :
                   contains(lower(strip(results.s)), keyword)
             THEN <<[kind |-> "Context", type |-> ViolationTypes[i]]>>
             ELSE <<>>)
    ELSE <<>>

\* the `for i, query in enumerate(violation_queries)` loop, from query i on
RECURSIVE violation_loop(_, _, _)
violation_loop(outs, i, violations) ==
    IF i > Len(outs) THEN violations
    ELSE violation_loop(outs, i + 1, violations \o query_entries(i, outs[i]))

\* the entry the summary query appends
summary_entry(summary) ==
    IF summary = Raised THEN [kind |-> "Completed", type |-> "native"]
    ELSE IF Truthy(summary) /\ strip(summary.s) # <<>>
    THEN [kind |-> "Code Quality Analysis", type |-> ""]
    ELSE [kind |-> "Completed", type |-> "no major violations"]

\* `if len(violations) < 2:`
summary_issued(violations) == Len(violations) < 2

\* find_violations returning the whole list
uncapped(violations) == violations

\* `return violations[:6]`
cap(violations) ==
    SubSeq(violations, 1, IF Len(violations) < 6 THEN Len(violations) ELSE 6)

\* ViolationsAnalysisComponent.find_violations(project)
find_violations(project) ==
    /\ IF project \notin collections
       THEN last' = Call("find_violations", project, "",
                         List(<<[kind |-> "not indexed", type |-> project]>>), <<>>)
       ELSE \E outs \in [1..Len(ViolationTypes) -> SearchResults] :
            LET found == violation_loop(outs, 1, <<>>) IN
            IF summary_issued(found)
            THEN \E summary \in SearchResults :
                 last' = Call("find_violations", project, "",
                              List(cap(Append(found, summary_entry(summary)))),
                              <<Len(found), 1>>)
            ELSE last' = Call("find_violations", project, "", List(cap(found)),
                              <<Len(found), 0>>)
    /\ UNCHANGED <<storeVars, cacheVars, resVars, thrVars, schedVars, connVars,
                   callVars, age>>

\* Analysing a collection before and after it is indexed
NextAnalysis ==
    \/ \E n \in IndexNames : find_violations(n)
    \/ \E n \in IndexNames : nextId <= MaxSearchId /\ index_project(n, "basic")

SpecAnalysis == InitIndex /\ [][NextAnalysis]_vars

----------------------------------------------------------------------------
(* integrations/api.py: GET /check/violation *)

\* a JSON response: its keys, and the values of "violation" and "cached"
\* (None where the key is absent); an unhandled exception is the raise
Response(keys, violation, cached) ==
    [t |-> "dict", s |-> keys, violation |-> violation, cached |-> cached]
ServerError == [t |-> "raise", s |-> <<>>, violation |-> None, cached |-> None]

\* str(response) of the violation query: the answers of the engine, one
\* that says there is no violation, or an exception
ViolationOutcomes ==
    {PyStr(a) : a \in Answers} \cup {PyStr(<<"No violation", " here.">>), Raised}

\* check_violation: `violation = None` or `violation = result`
violation_of(result) ==
    IF \/ contains(lower(result.s), "no violation")
       \/ contains(lower(result.s), "would not violate")
    THEN None ELSE result

\* check_violation(action, context)
check_violation(action, context) ==
    LET key    == violation_key(action, context)
        cached == QueryCache_get(key, "violations")
    IN /\ IF Truthy(cached)
          THEN /\ last' = Call("check_violation", context, action,
                               Response(<<"violation", "cached", "response_time_ms">>,
                                        cached, PyTrue), <<1>>)
               /\ UNCHANGED <<_graph_stores, redis, age>>
          ELSE IF ~index_exists(context)
          THEN /\ last' = Call("check_violation", context, action,
                               Response(<<"violation", "error">>, None, None), <<0>>)
               /\ UNCHANGED <<_graph_stores, redis, age>>
          ELSE \E result \in ViolationOutcomes :
               /\ _graph_stores' = get_index_stores(context, "None")
               /\ IF result = Raised
                  THEN /\ last' = Call("check_violation", context, action,
                                       ServerError, <<0>>)
                       /\ UNCHANGED <<redis, age>>
                  ELSE LET violation == violation_of(result)
                           stored    == IF Truthy(violation) THEN violation
                                        ELSE PyStr(<<"none">>)
                       IN /\ redis' = QueryCache_set_redis(key, "violations", stored)
                          /\ age' = QueryCache_set_age(key, "violations", stored)
                          /\ last' = Call("check_violation", context, action,
                                          Response(<<"violation", "cached", "action",
                                                     "context">>, violation, PyFalse),
                                          <<0>>)
       /\ UNCHANGED <<collections, points, fs, nextId, createdMode, redis_up,
                      redis_enabled, enabled, resVars, thrVars, schedVars,
                      connVars, callVars>>

\* Violation checks on a collection that is indexed and cleared
NextViolation ==
    \/ \E a \in ViolationActions, c \in IndexNames : check_violation(a, c)
    \/ \E n \in IndexNames : nextId <= MaxSearchId /\ index_project(n, "basic")
    \/ \E n \in IndexNames : clear_project(n)

SpecViolation == InitIndex /\ [][NextViolation]_vars

\* C25: when a violation check has answered uncached (and so populated the
\* entry) and the very next check of the same action and context is served
\* from the cache, the cached response carries the violation value of the
\* uncached one (null for "no violation") and the keys action and context.
C25_CachedVerdictIsTheSame ==
    [][(/\ last.op = "check_violation" /\ last.ret.cached = PyFalse
        /\ last'.op = "check_violation"
        /\ last'.name = last.name /\ last'.arg = last.arg
        /\ last'.ret.cached = PyTrue)
       => /\ last'.ret.violation = last.ret.violation
          /\ contains(last'.ret.s, "action")
          /\ contains(last'.ret.s, "context")]_vars

----------------------------------------------------------------------------
(* core/components/conversation/parser.py.  A line of the file is a text   *)
(* made of JSON tokens; a member of an object is one token.                *)

MaxLines == 3         \* lines of the conversation file

RoleUser  == "\"role\": \"user\""
RoleAsst  == "\"role\": \"assistant\""
ContentHi == "\"content\": \"hi\""

IsMember(tok) == tok \in {RoleUser, RoleAsst, ContentHi}
MemberOf(tok) ==
    CASE tok = RoleUser  -> <<"role", "user">>
      [] tok = RoleAsst  -> <<"role", "assistant">>
      [] tok = ContentHi -> <<"content", "hi">>

\* the lines a file is made of: objects, arrays, a scalar, and lines that
\* are not JSON
Lines ==
    {<<"{", RoleUser, ",", ContentHi, "}">>,
     <<"{", "}">>,
     <<" ", "{", ContentHi, "}", " ">>,
     <<"[", "{", RoleUser, "}", ",", "{", RoleAsst, ",", ContentHi, "}", "]">>,
     <<"[", "]">>,
     <<"[", "1", "]">>,
     <<"[", "{", RoleUser, "}", ",", "1", "]">>,
     <<"1">>,
     <<"{", RoleUser>>,
     <<>>}

\* json.loads on a token text: recursive descent from position i
ParseFail == [ok |-> FALSE, val |-> None, next |-> 0]
Parsed(val, next) == [ok |-> TRUE, val |-> val, next |-> next]

RECURSIVE parse_value(_, _)
RECURSIVE parse_members(_, _, _, _)
RECURSIVE parse_elements(_, _, _, _)

parse_value(s, i) ==
    IF i > Len(s) THEN ParseFail
    ELSE IF s[i] = "1" THEN Parsed(PyInt(<<"1">>), i + 1)
    ELSE IF s[i] = "{" THEN parse_members(s, i + 1, <<>>, TRUE)
    ELSE IF s[i] = "[" THEN parse_elements(s, i + 1, <<>>, TRUE)
    ELSE ParseFail

parse_members(s, i, d, first) ==
    IF i > Len(s) THEN ParseFail
    ELSE IF s[i] = "}" THEN (IF first THEN Parsed(Dict(d), i + 1) ELSE ParseFail)
    ELSE IF IsMember(s[i])
    THEN IF i + 1 > Len(s) THEN ParseFail
         ELSE IF s[i + 1] = "," THEN parse_members(s, i + 2, Append(d, s[i]), FALSE)
         ELSE IF s[i + 1] = "}" THEN Parsed(Dict(Append(d, s[i])), i + 2)
         ELSE ParseFail
    ELSE ParseFail

parse_elements(s, i, l, first) ==
    IF i > Len(s) THEN ParseFail
    ELSE IF s[i] = "]" THEN (IF first THEN Parsed(List(l), i + 1) ELSE ParseFail)
    ELSE LET r == parse_value(s, i) IN
         IF ~r.ok THEN ParseFail
         ELSE IF r.next > Len(s) THEN ParseFail
         ELSE IF s[r.next] = ","
         THEN parse_elements(s, r.next + 1, Append(l, r.val), FALSE)
         ELSE IF s[r.next] = "]" THEN Parsed(List(Append(l, r.val)), r.next + 1)
         ELSE ParseFail

\* json.loads(line.strip()): the value, or Raised for json.JSONDecodeError
json_line(line) ==
    LET s == strip(line)
        r == parse_value(s, 1)
    IN IF r.ok /\ r.next = Len(s) + 1 THEN r.val ELSE Raised

\* dict.get(key, default): the last member with that key wins
RECURSIVE dict_get(_, _, _)
dict_get(members, key, default) ==
    IF members = <<>> THEN default
    ELSE LET m == MemberOf(members[Len(members)]) IN
         IF m[1] = key THEN m[2]
         ELSE dict_get(SubSeq(members, 1, Len(members) - 1), key, default)

\* _create_message_document / _create_conversation_document: the text
\* f"[{role}]: {content}"
document_text(msg) ==
    <<"[", dict_get(msg.s, "role", "unknown"), "]: ", dict_get(msg.s, "content", "")>>

\* the documents of one conversation line; a turn that is not a dict has no
\* .get, and the AttributeError is not caught
conversation_documents(turns) ==
    IF \A k \in 1..Len(turns) : turns[k].t = "dict"
    THEN [ok |-> TRUE, docs |-> [k \in 1..Len(turns) |-> document_text(turns[k])]]
    ELSE [ok |-> FALSE, docs |-> <<>>]

ParseResult(documents, conversations, messages) ==
    [t |-> "dict", s |-> <<"documents", "conversations", "messages", "source">>,
     documents |-> documents, conversations |-> conversations,
     messages |-> messages]
ParseRaised == [t |-> "raise", s |-> <<>>, documents |-> <<>>,
                conversations |-> 0, messages |-> 0]

\* the `for line_num, line in enumerate(f, 1)` loop, from line k on
RECURSIVE parse_lines(_, _, _, _, _)
parse_lines(lines, k, documents, conversation_count, message_count) ==
    IF k > Len(lines)
    THEN ParseResult(documents, conversation_count, message_count)
    ELSE LET msg == json_line(lines[k]) IN
         IF msg.t = "raise"
         THEN parse_lines(lines, k + 1, documents, conversation_count, message_count)
         ELSE IF msg.t = "dict"
         THEN parse_lines(lines, k + 1, Append(documents, document_text(msg)),
                          conversation_count, message_count + 1)
         ELSE IF msg.t = "list"
         THEN LET r == conversation_documents(msg.s) IN
              IF r.ok
              THEN parse_lines(lines, k + 1, documents \o r.docs,
                               conversation_count + 1, message_count + Len(r.docs))
              ELSE ParseRaised
         ELSE parse_lines(lines, k + 1, documents, conversation_count, message_count)

\* ConversationParserComponent.parse_jsonl_file(jsonl_path)
parse_jsonl_file ==
    /\ last' = Call("parse_jsonl_file", "", "", parse_lines(jsonl, 1, <<>>, 0, 0), <<>>)
    /\ UNCHANGED <<storeVars, cacheVars, resVars, thrVars, schedVars, connVars,
                   callVars, age>>

\* a line is appended to the conversation file
write_line(line) ==
    /\ Len(jsonl) < MaxLines
    /\ jsonl' = Append(jsonl, line)
    /\ last' = Call("env", "", "", None, <<>>)
    /\ UNCHANGED <<storeVars, cacheVars, resVars, thrVars, schedVars, connVars,
                   local, doubles, workflow_state, workflow_file, age>>

\* Parsing a conversation file as it grows
NextParser ==
    \/ \E line \in Lines : write_line(line)
    \/ parse_jsonl_file

SpecParser == InitIndex /\ [][NextParser]_vars

\* the documents a line stands for: one for an object, one per turn for an
\* array of objects, none for any other line
line_documents(line) ==
    LET msg == json_line(line) IN
    IF msg.t = "dict" THEN 1
    ELSE IF msg.t = "list" /\ \A k \in 1..Len(msg.s) : msg.s[k].t = "dict"
    THEN Len(msg.s)
    ELSE 0

RECURSIVE expected_documents(_)
expected_documents(lines) ==
    IF lines = <<>> THEN 0
    ELSE line_documents(Head(lines)) + expected_documents(Tail(lines))

\* C26: parse_jsonl_file of any file returns its result (it does not raise),
\* with as many documents as the file has object lines plus turns in its
\* arrays of objects, each document's text being "[<role>]: <content>".
C26_BadLinesAreSkipped ==
    last.op = "parse_jsonl_file" =>
        /\ last.ret.t = "dict"
        /\ Len(last.ret.documents) = expected_documents(jsonl)
        /\ \A k \in 1..Len(last.ret.documents) :
              LET d == last.ret.documents[k] IN
              Len(d) = 4 /\ d[1] = "[" /\ d[3] = "]: "

----------------------------------------------------------------------------
(* core/resources/llm_selector.py.  A task description is a text made of   *)
(* fragments; a fragment may be part of a longer word ("tar" "get").       *)

MaxWords == 3         \* fragments in a task description

complex_keywords ==
    {"analyze", "reasoning", "planning", "workflow", "business logic",
     "architecture", "design patterns", "violations", "entity extraction",
     "relationships", "graph", "property graph", "code analysis"}

simple_keywords ==
    {"search", "find", "get", "list", "health", "status", "exists",
     "simple", "basic", "quick", "fast", "documentation", "function signatures"}

TaskFragments == {"analyze", "Graph", "get", "tar", " "}
Tasks == UNION {[1..n -> TaskFragments] : n \in 1..MaxWords}

\* should_use_complex_model testing the complex keywords first
should_use_complex_model_complex_first(task_description) ==
    LET task_lower == lower(task_description) IN
    IF \E keyword \in complex_keywords : contains(task_lower, keyword)
    THEN "complex"
    ELSE "fast"

\* should_use_complex_model(task_description)
should_use_complex_model(task_description) ==
    LET task_lower == lower(task_description) IN
    IF \E keyword \in simple_keywords : contains(task_lower, keyword)
    THEN "fast"
    ELSE IF \E keyword \in complex_keywords : contains(task_lower, keyword)
    THEN "complex"
    ELSE "fast"

\* get_llm(task_type): the attribute of Settings it returns
get_llm(task_type) ==
    [t |-> "llm",
     s |-> <<CASE task_type = "complex"     -> "llm_complex"
               [] task_type = "complex_alt" -> "llm_complex_alt"
               [] OTHER                     -> "llm_fast">>]

\* get_smart_llm(task_description)
get_smart_llm(task_description) ==
    /\ last' = Call("get_smart_llm", "", task_description,
                    get_llm(should_use_complex_model(task_description)), <<>>)
    /\ UNCHANGED <<storeVars, cacheVars, resVars, thrVars, schedVars, connVars,
                   callVars, age>>

NextSelector == \E task \in Tasks : get_smart_llm(task)

SpecSelector == InitIndex /\ [][NextSelector]_vars

----------------------------------------------------------------------------
(* Properties of the cache's encoding and of its invalidation *)

\* C28: with the cache enabled and its backend up, when QueryCache.set(q, c, v)
\* has succeeded and the very next operation is QueryCache.get(q, c), the get
\* returns v (v is what the key-value store holds under the entry: the
\* store's get undoes the store's put).
C28_SetThenGetReturnsTheValue ==
    [][(/\ enabled /\ redis_up
        /\ last.op = "QueryCache.set" /\ last.ret = PyTrue
        /\ last'.op = "QueryCache.get"
        /\ last'.name = last.name /\ last'.arg = last.arg)
       => last'.ret = RedisKVStore_get(_make_key(last.arg), last.name)]_vars

\* Searching one collection while it is indexed, refreshed and deleted
NextInvalidate ==
    \/ \E q \in Queries, n \in IndexNames, k \in Limits : search(q, n, k)
    \/ \E n \in IndexNames : nextId <= MaxSearchId /\ index_project(n, "basic")
    \/ \E n \in IndexNames : nextId <= MaxSearchId /\ refresh_project(n)
    \/ \E n \in IndexNames : clear_project(n)

SpecInvalidate == InitIndex /\ [][NextInvalidate]_vars

\* C29: the search that directly follows clear_project(name) on the same
\* name is not served from the cache (whatever the cache then holds for name
\* was cached before the delete).
C29_DeleteInvalidatesCache ==
    [][(/\ last.op = "clear_project"
        /\ last'.op = "search" /\ last'.name = last.name)
       => last'.nums = <<0>>]_vars

----------------------------------------------------------------------------
(* core/components/documentation/workflow_indexing.py.  The workflow of    *)
(* collection n has the id "workflow_" + n; workflow_state and the         *)
(* persisted files are kept per collection name.                           *)

Stages == <<"extract", "validate", "index", "persist">>

\* pipeline_steps with the first `done` stages completed
steps_after(done) ==
    [k \in 1..Len(Stages) |->
        [stage |-> Stages[k],
         status |-> IF k <= done THEN "completed" ELSE "pending"]]

\* the stage that raises, 0 when none does: _extract_documents raises on a
\* source type it does not know (or when the reader fails), _validate_documents
\* when no document with text is left, _index_documents when the index cannot
\* be built, _persist_workflow_state when the file cannot be written
failing_stage(source_type, reader_ok, valid_docs, index_ok, disk_ok) ==
    IF source_type \notin {"url", "github"} \/ ~reader_ok THEN 1
    ELSE IF valid_docs = 0 THEN 2
    ELSE IF ~index_ok THEN 3
    ELSE IF ~disk_ok THEN 4
    ELSE 0

\* DocumentProcessingWorkflow.create_document_pipeline(source_config), with
\* source_config['collection_name'] = name
create_document_pipeline(name, source_type, reader_ok, valid_docs, index_ok, disk_ok) ==
    LET failed == failing_stage(source_type, reader_ok, valid_docs, index_ok, disk_ok) IN
    /\ IF failed = 0
       THEN \* json.dump runs before the persist step is marked completed
            /\ workflow_file' = [workflow_file EXCEPT ![name] =
                                    [steps |-> steps_after(3), status |-> "running"]]
            /\ workflow_state' = [workflow_state EXCEPT ![name] =
                                    [steps |-> steps_after(4), status |-> "running"]]
            /\ last' = Call("create_document_pipeline", name, source_type,
                            Dict(<<"success", "workflow_id", "docs_processed",
                                   "index_result", "workflow_complete">>), <<0>>)
       ELSE /\ workflow_state' = [workflow_state EXCEPT ![name] =
                                    [steps |-> steps_after(failed - 1),
                                     status |-> "failed"]]
            /\ last' = Call("create_document_pipeline", name, source_type,
                            Dict(<<"success", "error", "workflow_id">>), <<failed>>)
            /\ UNCHANGED workflow_file
    /\ UNCHANGED <<storeVars, cacheVars, resVars, thrVars, schedVars, connVars,
                   local, doubles, jsonl, age>>

NextWorkflow ==
    \E n \in Names, st \in {"url", "github", "auto"}, reader_ok \in BOOLEAN,
       valid_docs \in 0..1, index_ok \in BOOLEAN, disk_ok \in BOOLEAN :
          create_document_pipeline(n, st, reader_ok, valid_docs, index_ok, disk_ok)

SpecWorkflow == InitIndex /\ [][NextWorkflow]_vars

\* every step of a recorded state is completed
all_completed(w) == \A k \in 1..Len(w.steps) : w.steps[k].status = "completed"

\* C30: when create_document_pipeline has returned success, the in-memory
\* workflow state and the persisted file both record the four steps as
\* completed and a status other than "running"; when it has returned
\* failure, the in-memory status is "failed" and the failing step and every
\* later step are "pending".
C30_RecordedStateIsTerminal ==
    last.op = "create_document_pipeline" =>
        LET w == workflow_state[last.name]
            f == workflow_file[last.name]
        IN IF last.nums = <<0>>
           THEN /\ Len(w.steps) = 4 /\ all_completed(w) /\ w.status # "running"
                /\ Len(f.steps) = 4 /\ all_completed(f) /\ f.status # "running"
           ELSE /\ w.status = "failed"
                /\ \A k \in last.nums[1]..4 : w.steps[k].status = "pending"

====
